---- MODULE Spec2Model ----
(***************************************************************************)
(* A model of nominat (src/nominat/__init__.py): the Nominator             *)
(* substitution engine, its regex tokenisation (SPLIT_UNDERSCORE,          *)
(* SPLIT_CASE) and the case-preserving replacement of single words.        *)
(*                                                                         *)
(* A string is a sequence of one-character strings: "id" is <<"i", "d">>.  *)
(***************************************************************************)
EXTENDS Integers, Sequences, FiniteSets, TLC

VARIABLES
    cache,          \* Nominator.cache: dict, lowercase word -> replacement
    replacements,   \* Nominator.replacements: list of candidate words
    _no_replace,    \* Nominator._no_replace: set of exempt words
    seeded,         \* whether external code has written to cache (tests, fixture spam)
    call,           \* the last call made: [op, arg]
    result,         \* what that call gave: [err, val]
    hits,           \* history: how many cache hits that call had
    picked,         \* history: the <<word, replacement>> pairs _replace has returned
                    \* for words that are not exempt
    frames,         \* the concurrent callers of _replace: for each its position
                    \* in the method and its local variables
    mutex           \* the external synchronization of those callers: NoMutex,
                    \* Free, or the caller that holds it

vars ==
    <<cache, replacements, _no_replace, seeded, call, result, hits, picked,
      frames, mutex>>

----------------------------------------------------------------------------
(* Bounds of the model.                                                    *)

\* longest text given to replace_combined
MaxLen == 2
\* longest word given to replace_single
MaxWord == 2
\* most entries the cache holds before calls that would add more are left out
MaxCache == 2
\* longest text given to a single call of replace_combined on a fresh instance
MaxText == 4
\* longest letter-only text given to such a call
MaxRun == 6
\* longest word given to a single call of replace_single on a fresh instance
MaxSingle == 3
\* how many callers run _replace concurrently
NumCallers == 2
\* most characters of a source of words, line ends included
MaxFile == 5

----------------------------------------------------------------------------
(* Characters: Python 2 str methods and the regex classes [a-z], [A-Z]     *)
(* work on ASCII.                                                          *)

LowerLetters ==
    <<"a", "b", "c", "d", "e", "f", "g", "h", "i", "j", "k", "l", "m",
      "n", "o", "p", "q", "r", "s", "t", "u", "v", "w", "x", "y", "z">>

UpperLetters ==
    <<"A", "B", "C", "D", "E", "F", "G", "H", "I", "J", "K", "L", "M",
      "N", "O", "P", "Q", "R", "S", "T", "U", "V", "W", "X", "Y", "Z">>

LowerSet == {LowerLetters[i] : i \in DOMAIN LowerLetters}

UpperSet == {UpperLetters[i] : i \in DOMAIN UpperLetters}

\* chr(ord(c) + 32) for an uppercase letter c
ToLower ==
    [c \in UpperSet |->
        LowerLetters[CHOOSE i \in DOMAIN UpperLetters : UpperLetters[i] = c]]

\* chr(ord(c) - 32) for a lowercase letter c
ToUpper ==
    [c \in LowerSet |->
        UpperLetters[CHOOSE i \in DOMAIN LowerLetters : LowerLetters[i] = c]]

\* [a-z]
IsLowerCh(c) == c \in LowerSet

\* [A-Z]
IsUpperCh(c) == c \in UpperSet

IsCasedCh(c) == IsLowerCh(c) \/ IsUpperCh(c)

LowerCh(c) == IF IsUpperCh(c) THEN ToLower[c] ELSE c

UpperCh(c) == IF IsLowerCh(c) THEN ToUpper[c] ELSE c

----------------------------------------------------------------------------
(* Python's str methods, as replace_single uses them.                      *)

\* str.lower()
Lower(s) == [i \in DOMAIN s |-> LowerCh(s[i])]

\* str.upper()
Upper(s) == [i \in DOMAIN s |-> UpperCh(s[i])]

\* str.title(): a letter that follows a letter is lowercased, any other
\* letter is uppercased.
Title(s) ==
    [i \in DOMAIN s |->
        IF i > 1 /\ IsCasedCh(s[i - 1]) THEN LowerCh(s[i]) ELSE UpperCh(s[i])]

\* str.islower(): at least one cased character and no uppercase one
IsLower(s) ==
    /\ \E i \in DOMAIN s : IsLowerCh(s[i])
    /\ \A i \in DOMAIN s : ~IsUpperCh(s[i])

\* str.isupper(): at least one cased character and no lowercase one
IsUpper(s) ==
    /\ \E i \in DOMAIN s : IsUpperCh(s[i])
    /\ \A i \in DOMAIN s : ~IsLowerCh(s[i])

\* str.istitle(): uppercase letters follow only uncased characters, lowercase
\* letters follow only cased ones, and there is at least one cased character.
IsTitle(s) ==
    /\ \E i \in DOMAIN s : IsCasedCh(s[i])
    /\ \A i \in DOMAIN s :
        /\ IsUpperCh(s[i]) => ~(i > 1 /\ IsCasedCh(s[i - 1]))
        /\ IsLowerCh(s[i]) => (i > 1 /\ IsCasedCh(s[i - 1]))

----------------------------------------------------------------------------
(* The regular expressions.                                                *)

\* The length of the longest run of lowercase letters of s that starts at pos.
RECURSIVE LowerRun(_, _)
LowerRun(s, pos) ==
    IF pos <= Len(s) /\ IsLowerCh(s[pos]) THEN 1 + LowerRun(s, pos + 1) ELSE 0

\* The length of the longest run of uppercase letters of s that starts at pos.
RECURSIVE UpperRun(_, _)
UpperRun(s, pos) ==
    IF pos <= Len(s) /\ IsUpperCh(s[pos]) THEN 1 + UpperRun(s, pos + 1) ELSE 0

\* AltLowerStart with a fault: the run goes on over the uppercase letters
\* that follow it, ^[a-z]+[A-Z]*
AltLowerStart_mixed(s, pos) ==
    IF pos = 1 /\ LowerRun(s, pos) > 0
    THEN LowerRun(s, pos) + UpperRun(s, pos + LowerRun(s, pos))
    ELSE 0

\* SPLIT_CASE, first alternative, ^[a-z]+ : the length matched at pos, 0 for
\* no match.  Without re.MULTILINE ^ matches at the start of the string only.
AltLowerStart(s, pos) == IF pos = 1 THEN LowerRun(s, pos) ELSE 0

\* AltUpperRun with a fault: the lookahead (?![a-z]) is left out.
AltUpperRun_greedy(s, pos) == UpperRun(s, pos)

\* SPLIT_CASE, second alternative, [A-Z]+(?![a-z]) : the greedy run, given
\* back one letter at a time until no lowercase letter follows.
AltUpperRun(s, pos) ==
    LET n == UpperRun(s, pos)
    IN  IF n = 0 THEN 0
        ELSE IF pos + n <= Len(s) /\ IsLowerCh(s[pos + n]) THEN n - 1
        ELSE n

\* AltCapitalized with a fault: one lowercase letter only, [A-Z][a-z]
AltCapitalized_short(s, pos) ==
    IF pos <= Len(s) /\ IsUpperCh(s[pos]) /\ LowerRun(s, pos + 1) >= 1
    THEN 2
    ELSE 0

\* SPLIT_CASE, third alternative, [A-Z][a-z]+
AltCapitalized(s, pos) ==
    IF pos <= Len(s) /\ IsUpperCh(s[pos]) /\ LowerRun(s, pos + 1) >= 1
    THEN 1 + LowerRun(s, pos + 1)
    ELSE 0

\* SPLIT_CASE: the alternatives are tried in order at pos.
SPLIT_CASE(s, pos) ==
    IF AltLowerStart(s, pos) > 0 THEN AltLowerStart(s, pos)
    ELSE IF AltUpperRun(s, pos) > 0 THEN AltUpperRun(s, pos)
    ELSE AltCapitalized(s, pos)

\* SPLIT_UNDERSCORE, [^_]+ : the length of the run of non-underscores at pos.
RECURSIVE SPLIT_UNDERSCORE(_, _)
SPLIT_UNDERSCORE(s, pos) ==
    IF pos <= Len(s) /\ s[pos] # "_" THEN 1 + SPLIT_UNDERSCORE(s, pos + 1) ELSE 0

\* re.finditer(SPLIT_CASE, word) from pos on: the matches left to right, each
\* search resuming where the last match ended; a position where nothing
\* matches is stepped over.
RECURSIVE FindCase(_, _)
FindCase(word, pos) ==
    IF pos > Len(word) THEN <<>>
    ELSE LET n == SPLIT_CASE(word, pos)
         IN  IF n = 0 THEN FindCase(word, pos + 1)
             ELSE <<SubSeq(word, pos, pos + n - 1)>> \o FindCase(word, pos + n)

\* split_replace_by_case(word): the chunks of word that SPLIT_CASE matches.
split_replace_by_case(word) == FindCase(word, 1)

----------------------------------------------------------------------------
(* read_words: the words of a source, which is iterated line by line.      *)

\* the characters str.split() and str.strip() take for whitespace
Whitespace == {" ", "\t", "\n", "\r", "\f"}

IsSpaceCh(c) == c \in Whitespace

\* the length of the longest run of non-whitespace of s that starts at pos
RECURSIVE NonSpaceRun(_, _)
NonSpaceRun(s, pos) ==
    IF pos <= Len(s) /\ ~IsSpaceCh(s[pos]) THEN 1 + NonSpaceRun(s, pos + 1)
    ELSE 0

\* line.split() from pos on: the runs of non-whitespace, left to right;
\* whitespace is stepped over, so no run is empty.
RECURSIVE Split(_, _)
Split(line, pos) ==
    IF pos > Len(line) THEN <<>>
    ELSE LET n == NonSpaceRun(line, pos)
         IN  IF n = 0 THEN Split(line, pos + 1)
             ELSE <<SubSeq(line, pos, pos + n - 1)>> \o Split(line, pos + n)

\* word.strip(): word without its leading and trailing whitespace
Strip(word) ==
    LET inked == {i \in DOMAIN word : ~IsSpaceCh(word[i])}
    IN  IF inked = {} THEN <<>>
        ELSE SubSeq(word,
                    CHOOSE i \in inked : \A j \in inked : i <= j,
                    CHOOSE i \in inked : \A j \in inked : i >= j)

\* YieldWords with a fault: the words are yielded in the case they have.
RECURSIVE YieldWords_cased(_, _)
YieldWords_cased(words, i) ==
    IF i > Len(words) THEN <<>>
    ELSE LET word == Strip(words[i])
         IN  (IF word # <<>> THEN <<word>> ELSE <<>>)
                 \o YieldWords_cased(words, i + 1)

\* The inner loop of read_words over the words of one line, from the i-th
\* on: each is stripped and, unless empty, yielded in lowercase.
RECURSIVE YieldWords(_, _)
YieldWords(words, i) ==
    IF i > Len(words) THEN <<>>
    ELSE LET word == Strip(words[i])
         IN  (IF word # <<>> THEN <<Lower(word)>> ELSE <<>>)
                 \o YieldWords(words, i + 1)

\* The outer loop of read_words over the lines of source, from the i-th on.
RECURSIVE ReadLines(_, _)
ReadLines(source, i) ==
    IF i > Len(source) THEN <<>>
    ELSE YieldWords(Split(source[i], 1), 1) \o ReadLines(source, i + 1)

\* read_words(source), as the list __init__ makes of it
read_words(source) == ReadLines(source, 1)

\* What iterating over a file with this content gives: its lines, each with
\* the newline that ends it.
RECURSIVE FileLines(_)
FileLines(content) ==
    IF content = <<>> THEN <<>>
    ELSE LET ends == {i \in DOMAIN content : content[i] = "\n"}
         IN  IF ends = {} THEN <<content>>
             ELSE LET n == CHOOSE i \in ends : \A j \in ends : i <= j
                  IN  <<SubSeq(content, 1, n)>>
                          \o FileLines(SubSeq(content, n + 1, Len(content)))

----------------------------------------------------------------------------
(* The Nominator.  A method takes the part of the instance it may change   *)
(* as a record m and gives the record after it:                            *)
(*   m.cache  the cache;                                                   *)
(*   m.rnd    the draws random.choice has yet to make, each an index into  *)
(*            replacements;                                                *)
(*   m.log    the <<word, replacement>> pairs _replace has returned for    *)
(*            words that are not exempt;                                   *)
(*   m.hits   how many times _replace has found its word in the cache;      *)
(*   m.err    "none", or the exception raised;                             *)
(*   m.val    the value returned (<<>> when an exception is raised).       *)

Raise(m, exc) == [m EXCEPT !.err = exc, !.val = <<>>]

Return(m, v) == [m EXCEPT !.err = "none", !.val = v]

\* _replace with a fault: the choice is returned but not stored in the cache.
_replace_unstored(word, m) ==
    IF word \in _no_replace THEN Return(m, word)
    ELSE IF word \in DOMAIN m.cache
    THEN Return([m EXCEPT !.log = @ \cup {<<word, m.cache[word]>>},
                          !.hits = @ + 1],
                m.cache[word])
    ELSE IF replacements = <<>> THEN Raise(m, "IndexError")
    ELSE LET replacement == replacements[Head(m.rnd)]
         IN  Return([m EXCEPT !.rnd = Tail(@),
                              !.log = @ \cup {<<word, replacement>>}],
                    replacement)

\* _replace with a fault: the exemption set is not looked at.
_replace_unexempt(word, m) ==
    IF word \in DOMAIN m.cache
    THEN Return([m EXCEPT !.log = @ \cup {<<word, m.cache[word]>>},
                          !.hits = @ + 1],
                m.cache[word])
    ELSE IF replacements = <<>> THEN Raise(m, "IndexError")
    ELSE LET replacement == replacements[Head(m.rnd)]
         IN  Return([m EXCEPT !.cache = @ @@ (word :> replacement),
                              !.rnd = Tail(@),
                              !.log = @ \cup {<<word, replacement>>}],
                    replacement)

\* _replace with a fault: with no candidate to choose from, the word is
\* returned as it is.
_replace_fallback(word, m) ==
    IF word \in _no_replace THEN Return(m, word)
    ELSE IF word \in DOMAIN m.cache
    THEN Return([m EXCEPT !.log = @ \cup {<<word, m.cache[word]>>},
                          !.hits = @ + 1],
                m.cache[word])
    ELSE IF replacements = <<>> THEN Return(m, word)
    ELSE LET replacement == replacements[Head(m.rnd)]
         IN  Return([m EXCEPT !.cache = @ @@ (word :> replacement),
                              !.rnd = Tail(@),
                              !.log = @ \cup {<<word, replacement>>}],
                    replacement)

\* _replace with a fault: random.choice is called before the cache is
\* looked at.
_replace_eager(word, m) ==
    IF word \in _no_replace THEN Return(m, word)
    ELSE IF replacements = <<>> THEN Raise(m, "IndexError")
    ELSE IF word \in DOMAIN m.cache
    THEN Return([m EXCEPT !.log = @ \cup {<<word, m.cache[word]>>},
                          !.hits = @ + 1],
                m.cache[word])
    ELSE LET replacement == replacements[Head(m.rnd)]
         IN  Return([m EXCEPT !.cache = @ @@ (word :> replacement),
                              !.rnd = Tail(@),
                              !.log = @ \cup {<<word, replacement>>}],
                    replacement)

\* _replace with a fault: the entry is made, empty, before the choice, and
\* stays when the choice fails.
_replace_reserving(word, m) ==
    IF word \in _no_replace THEN Return(m, word)
    ELSE IF word \in DOMAIN m.cache
    THEN Return([m EXCEPT !.log = @ \cup {<<word, m.cache[word]>>},
                          !.hits = @ + 1],
                m.cache[word])
    ELSE IF replacements = <<>>
    THEN Raise([m EXCEPT !.cache = @ @@ (word :> <<>>)], "IndexError")
    ELSE LET replacement == replacements[Head(m.rnd)]
         IN  Return([m EXCEPT !.cache = @ @@ (word :> replacement),
                              !.rnd = Tail(@),
                              !.log = @ \cup {<<word, replacement>>}],
                    replacement)

\* _replace with a fault: a new choice takes the place of the whole cache.
_replace_evicting(word, m) ==
    IF word \in _no_replace THEN Return(m, word)
    ELSE IF word \in DOMAIN m.cache
    THEN Return([m EXCEPT !.log = @ \cup {<<word, m.cache[word]>>},
                          !.hits = @ + 1],
                m.cache[word])
    ELSE IF replacements = <<>> THEN Raise(m, "IndexError")
    ELSE LET replacement == replacements[Head(m.rnd)]
         IN  Return([m EXCEPT !.cache = (word :> replacement),
                              !.rnd = Tail(@),
                              !.log = @ \cup {<<word, replacement>>}],
                    replacement)

\* Nominator._replace(word)
_replace(word, m) ==
    IF word \in _no_replace THEN Return(m, word)
    ELSE IF word \in DOMAIN m.cache
    THEN Return([m EXCEPT !.log = @ \cup {<<word, m.cache[word]>>},
                          !.hits = @ + 1],
                m.cache[word])
    \* random.choice of an empty list raises IndexError, before the store
    ELSE IF replacements = <<>> THEN Raise(m, "IndexError")
    ELSE LET replacement == replacements[Head(m.rnd)]
         IN  Return([m EXCEPT !.cache = @ @@ (word :> replacement),
                              !.rnd = Tail(@),
                              !.log = @ \cup {<<word, replacement>>}],
                    replacement)

\* replace_single with a fault: the replacement of a title-case word is
\* uppercased.
replace_single_shouting(word, m) ==
    IF IsLower(word) THEN _replace(word, m)
    ELSE IF IsUpper(word) \/ IsTitle(word)
    THEN LET r == _replace(Lower(word), m)
         IN  IF r.err = "none" THEN Return(r, Upper(r.val)) ELSE r
    ELSE Raise(m, "ValueError")

\* replace_single with a fault: an uppercase word is looked up as it is.
replace_single_keyed(word, m) ==
    IF IsLower(word) THEN _replace(word, m)
    ELSE IF IsUpper(word)
    THEN LET r == _replace(word, m)
         IN  IF r.err = "none" THEN Return(r, Upper(r.val)) ELSE r
    ELSE IF IsTitle(word)
    THEN LET r == _replace(Lower(word), m)
         IN  IF r.err = "none" THEN Return(r, Title(r.val)) ELSE r
    ELSE Raise(m, "ValueError")

\* replace_single with a fault: a word of no recognized casing is replaced
\* like a lowercase one instead of being refused.
replace_single_lenient(word, m) ==
    IF IsLower(word) THEN _replace(word, m)
    ELSE IF IsUpper(word)
    THEN LET r == _replace(Lower(word), m)
         IN  IF r.err = "none" THEN Return(r, Upper(r.val)) ELSE r
    ELSE IF IsTitle(word)
    THEN LET r == _replace(Lower(word), m)
         IN  IF r.err = "none" THEN Return(r, Title(r.val)) ELSE r
    ELSE _replace(Lower(word), m)

\* Nominator.replace_single(word)
replace_single(word, m) ==
    IF IsLower(word) THEN _replace(word, m)
    ELSE IF IsUpper(word)
    THEN LET r == _replace(Lower(word), m)
         IN  IF r.err = "none" THEN Return(r, Upper(r.val)) ELSE r
    ELSE IF IsTitle(word)
    THEN LET r == _replace(Lower(word), m)
         IN  IF r.err = "none" THEN Return(r, Title(r.val)) ELSE r
    ELSE Raise(m, "ValueError")

\* ''.join(imap(self.replace_single, words)) from the i-th word on: the
\* words are replaced left to right and the first exception ends the call.
\* m.val holds the text joined so far.
RECURSIVE JoinReplaced(_, _, _)
JoinReplaced(words, i, m) ==
    IF i > Len(words) THEN m
    ELSE LET r == replace_single(words[i], m)
         IN  IF r.err # "none" THEN r
             ELSE JoinReplaced(words, i + 1, Return(r, m.val \o r.val))

\* Nominator._process_cased_words(match), cased_word being match.group(0)
_process_cased_words(cased_word, m) ==
    JoinReplaced(split_replace_by_case(cased_word), 1, Return(m, <<>>))

\* re.sub(SPLIT_UNDERSCORE, self._process_cased_words, word) from pos on:
\* every run of non-underscores is replaced by what the callback returns for
\* it, the underscores between the runs are copied.  m.val holds the output
\* so far.
RECURSIVE SubUnderscore(_, _, _)
SubUnderscore(word, pos, m) ==
    IF pos > Len(word) THEN m
    ELSE LET n == SPLIT_UNDERSCORE(word, pos)
         IN  IF n = 0
             THEN SubUnderscore(word, pos + 1, Return(m, m.val \o <<word[pos]>>))
             ELSE LET r == _process_cased_words(
                               SubSeq(word, pos, pos + n - 1), m)
                  IN  IF r.err # "none" THEN r
                      ELSE SubUnderscore(word, pos + n,
                                         Return(r, m.val \o r.val))

\* Nominator.replace_combined(word), and __call__, which is the same
replace_combined(word, m) == SubUnderscore(word, 1, Return(m, <<>>))

\* The words a call of replace_combined(word) hands to replace_single, in
\* order: the SPLIT_CASE matches of each SPLIT_UNDERSCORE match, from pos on.
RECURSIVE CasedWords(_, _)
CasedWords(word, pos) ==
    IF pos > Len(word) THEN <<>>
    ELSE LET n == SPLIT_UNDERSCORE(word, pos)
         IN  IF n = 0 THEN CasedWords(word, pos + 1)
             ELSE split_replace_by_case(SubSeq(word, pos, pos + n - 1))
                      \o CasedWords(word, pos + n)

----------------------------------------------------------------------------
(* Instances and inputs.                                                   *)

\* the words of the tests
id == <<"i", "d">>
chicken == <<"c", "h", "i", "c", "k", "e", "n">>
spam == <<"s", "p", "a", "m">>
egg == <<"e", "g", "g">>
fan == <<"f", "a", "n">>
\* a candidate word that is not made of letters only
x_ray == <<"x", "-", "r", "a", "y">>

\* Nominator.__init__(replacements, no_replace): the instances built.  The
\* first three are the tests' fixtures empty, chicken and spam; the last has
\* two candidates to choose from.  read_words gives lowercase words.
Fixtures ==
    { [replacements |-> <<>>, no_replace |-> {}],
      [replacements |-> <<chicken>>, no_replace |-> {id}],
      [replacements |-> <<spam>>, no_replace |-> {}],
      [replacements |-> <<egg, x_ray>>, no_replace |-> {id}] }

\* What external code writes into a fresh instance's cache (the tests'
\* fixture spam, and test_replace_numerals).
SeedCaches == {(<<"d">> :> egg) @@ (<<"1">> :> fan)}

\* the characters of the words given to replace_single
WordChars == {"i", "d", "I", "D", "1"}

\* the characters of the texts given to replace_combined
TextChars == WordChars \cup {"-", "_"}

RECURSIVE StringsOfLen(_, _)
StringsOfLen(chars, n) ==
    IF n = 0 THEN {<<>>}
    ELSE {Append(t, c) : t \in StringsOfLen(chars, n - 1), c \in chars}

Strings(chars, max) == UNION {StringsOfLen(chars, n) : n \in 0..max}

\* the letters among them
LetterChars == {c \in WordChars : IsCasedCh(c)}

\* the words given to replace_single
Words == Strings(WordChars, MaxWord)

\* the texts given to replace_combined
Texts == Strings(TextChars, MaxLen)

\* the texts given to one call of replace_combined on a fresh instance
LongTexts == Strings(TextChars, MaxText) \cup Strings(LetterChars, MaxRun)

\* The draws n calls of random.choice(self.replacements) can make.
Draws(n) ==
    [1..n -> IF replacements = <<>> THEN {1} ELSE DOMAIN replacements]

\* The instance as a method finds it.
Self(rnd) ==
    [cache |-> cache, rnd |-> rnd, log |-> picked, hits |-> 0,
     err |-> "none", val |-> <<>>]

\* the callers that run _replace concurrently
Callers == 1..NumCallers

\* The values of mutex that are not a caller: the callers are not
\* synchronized at all; they are, and no caller is inside _replace.
NoMutex == -1
Free == 0

----------------------------------------------------------------------------
(* The state machine: one instance, built, possibly seeded, then called.   *)

\* The instance right after Nominator.__init__
Built ==
    /\ cache = <<>>
    /\ \E f \in Fixtures :
        /\ replacements = f.replacements
        /\ _no_replace = f.no_replace
    /\ seeded = FALSE
    /\ result = [err |-> "none", val |-> <<>>]
    /\ hits = 0
    /\ picked = {}
    /\ frames = <<>>
    /\ mutex = NoMutex

Init ==
    /\ Built
    /\ call = [op |-> "init", arg |-> <<>>]

\* cache.update(entries) by external code, on an instance not yet used
Seed(entries) ==
    /\ call.op \in {"init", "text", "word"}
    /\ ~seeded
    /\ cache' = entries @@ cache
    /\ seeded' = TRUE
    /\ UNCHANGED <<replacements, _no_replace, call, result, hits, picked,
                   frames, mutex>>

\* Called with a fault: a candidate that was chosen is taken off the list.
Called_consuming(op, arg, r) ==
    /\ cache' = r.cache
    /\ picked' = r.log
    /\ hits' = r.hits
    /\ call' = [op |-> op, arg |-> arg]
    /\ result' = [err |-> r.err, val |-> r.val]
    /\ replacements' = IF r.cache # cache THEN Tail(replacements)
                                           ELSE replacements
    /\ UNCHANGED <<_no_replace, seeded, frames, mutex>>

\* What a call leaves behind, r being the record the method gives.
Called(op, arg, r) ==
    /\ cache' = r.cache
    /\ picked' = r.log
    /\ hits' = r.hits
    /\ call' = [op |-> op, arg |-> arg]
    /\ result' = [err |-> r.err, val |-> r.val]
    /\ UNCHANGED <<replacements, _no_replace, seeded, frames, mutex>>

\* A call that would take the cache beyond MaxCache entries is left out.
Fits(r) == Cardinality(DOMAIN r.cache) <= MaxCache

ReplaceSingle(word) ==
    \E rnd \in Draws(1) :
        LET r == replace_single(word, Self(rnd))
        IN  Fits(r) /\ Called("replace_single", word, r)

ReplaceCombined(word) ==
    \E rnd \in Draws(Len(CasedWords(word, 1))) :
        LET r == replace_combined(word, Self(rnd))
        IN  Fits(r) /\ Called("replace_combined", word, r)

Next ==
    \/ \E entries \in SeedCaches : Seed(entries)
    \/ \E word \in Words : ReplaceSingle(word)
    \/ \E word \in Texts : ReplaceCombined(word)

Spec == Init /\ [][Next]_vars

----------------------------------------------------------------------------
(* One call of replace_combined on a fresh (possibly seeded) instance, for *)
(* every text of LongTexts: the text is drawn when the instance is built.  *)

InitText ==
    /\ Built
    /\ \E text \in LongTexts : call = [op |-> "text", arg |-> text]

CallCombined ==
    /\ call.op = "text"
    /\ \E rnd \in Draws(Len(CasedWords(call.arg, 1))) :
        Called("replace_combined", call.arg,
               replace_combined(call.arg, Self(rnd)))

NextText ==
    \/ \E entries \in SeedCaches : Seed(entries)
    \/ CallCombined

SpecText == InitText /\ [][NextText]_vars

----------------------------------------------------------------------------
(* One call of replace_single on a fresh (possibly seeded) instance, for   *)
(* every word of LongWords: the word is drawn when the instance is built.  *)

\* the words given to one call of replace_single on a fresh instance
LongWords == Strings(WordChars, MaxSingle)

InitWord ==
    /\ Built
    /\ \E word \in LongWords : call = [op |-> "word", arg |-> word]

CallSingle ==
    /\ call.op = "word"
    /\ \E rnd \in Draws(1) :
        Called("replace_single", call.arg, replace_single(call.arg, Self(rnd)))

NextWord ==
    \/ \E entries \in SeedCaches : Seed(entries)
    \/ CallSingle

SpecWord == InitWord /\ [][NextWord]_vars

----------------------------------------------------------------------------
(* The construction: Nominator(replacements, no_replace) for every source  *)
(* of Sources, which is drawn before the instance is built.                *)

\* the characters of a source
SourceChars == {"a", "B", " ", "\t", "\n"}

\* The tuple of lines, none holding a newline, that joined by newlines make
\* content.
RECURSIVE TupleLines(_)
TupleLines(content) ==
    LET ends == {i \in DOMAIN content : content[i] = "\n"}
    IN  IF ends = {} THEN <<content>>
        ELSE LET n == CHOOSE i \in ends : \A j \in ends : i <= j
             IN  <<SubSeq(content, 1, n - 1)>>
                     \o TupleLines(SubSeq(content, n + 1, Len(content)))

\* the sources of words: files (test_words_from_file) and tuples of lines
\* (test_words_from_iterables)
Sources ==
    {FileLines(content) : content \in Strings(SourceChars, MaxFile)}
        \cup {TupleLines(content) : content \in Strings(SourceChars, MaxFile)}

\* the sources of exempt words: None, and a list
ExemptSources == {<<>>, << <<"I", "d">>, <<"a", " ", "I", "D">> >>}

InitSource ==
    /\ cache = <<>>
    /\ replacements = <<>>
    /\ _no_replace = {}
    /\ seeded = FALSE
    /\ result = [err |-> "none", val |-> <<>>]
    /\ hits = 0
    /\ picked = {}
    /\ frames = <<>>
    /\ mutex = NoMutex
    /\ \E source \in Sources : call = [op |-> "source", arg |-> source]

\* Nominator.__init__(replacements, no_replace)
Construct(no_replace) ==
    /\ call.op = "source"
    /\ cache' = <<>>
    /\ replacements' = read_words(call.arg)
    /\ _no_replace' = LET words == read_words(no_replace)
                      IN  {words[i] : i \in DOMAIN words}
    /\ call' = [op |-> "__init__", arg |-> call.arg]
    /\ UNCHANGED <<seeded, result, hits, picked, frames, mutex>>

NextSource == \E no_replace \in ExemptSources : Construct(no_replace)

SpecSource == InitSource /\ [][NextSource]_vars

----------------------------------------------------------------------------
(* Concurrent callers of _replace on one instance.  Each caller goes       *)
(* through the method line by line; the assignment of line 56 is two       *)
(* steps, the call of random.choice and the store into the cache.  Without *)
(* synchronization the steps of the callers interleave freely; with a      *)
(* mutex around the method a caller enters only when no other is inside.   *)

\* the words the callers ask for
RaceWords == {id, <<"d">>}

\* the frame of a caller that is not inside _replace
Idle ==
    [pc |-> "idle", word |-> <<>>, replacement |-> <<>>, val |-> <<>>,
     missed |-> FALSE]

InitRace ==
    /\ \E f \in Fixtures :
        /\ replacements = f.replacements
        /\ _no_replace = f.no_replace
    /\ cache \in {<<>>} \cup SeedCaches
    /\ seeded = (cache # <<>>)
    /\ call = [op |-> "race", arg |-> <<>>]
    /\ result = [err |-> "none", val |-> <<>>]
    /\ hits = 0
    /\ picked = {}
    /\ frames = [t \in Callers |-> Idle]
    /\ mutex \in {NoMutex, Free}

\* Caller t leaves the method: it gives up the mutex if it holds it.
Release(t) == mutex' = IF mutex = t THEN Free ELSE mutex

\* Caller t calls _replace(word).
Enter(t, word) ==
    /\ frames[t].pc \in {"idle", "done", "raised"}
    /\ mutex \in {NoMutex, Free}
    /\ mutex' = IF mutex = Free THEN t ELSE mutex
    /\ frames' = [frames EXCEPT ![t] = [Idle EXCEPT !.pc = "l52",
                                                    !.word = word]]
    /\ UNCHANGED <<cache, replacements, _no_replace, seeded, call, result,
                   hits, picked>>

\* lines 52-53: if word in self._no_replace: return word
CheckExempt(t) ==
    /\ frames[t].pc = "l52"
    /\ IF frames[t].word \in _no_replace
       THEN /\ frames' = [frames EXCEPT ![t].pc = "done",
                                        ![t].val = frames[t].word]
            /\ Release(t)
       ELSE /\ frames' = [frames EXCEPT ![t].pc = "l54"]
            /\ UNCHANGED mutex
    /\ UNCHANGED <<cache, replacements, _no_replace, seeded, call, result,
                   hits, picked>>

\* CheckCache with a fault: the word is never found in the cache.
CheckCache_blind(t) ==
    /\ frames[t].pc = "l54"
    /\ frames' = [frames EXCEPT ![t].pc = "l56", ![t].missed = TRUE]
    /\ UNCHANGED <<cache, replacements, _no_replace, seeded, call, result,
                   hits, picked, mutex>>

\* lines 54-55: if word in self.cache: return self.cache[word]
CheckCache(t) ==
    /\ frames[t].pc = "l54"
    /\ IF frames[t].word \in DOMAIN cache
       THEN /\ frames' = [frames EXCEPT ![t].pc = "done",
                                        ![t].val = cache[frames[t].word]]
            /\ picked' = picked
                            \cup {<<frames[t].word, cache[frames[t].word]>>}
            /\ Release(t)
       ELSE /\ frames' = [frames EXCEPT ![t].pc = "l56", ![t].missed = TRUE]
            /\ UNCHANGED <<picked, mutex>>
    /\ UNCHANGED <<cache, replacements, _no_replace, seeded, call, result,
                   hits>>

\* line 56, right-hand side: random.choice(self.replacements), which raises
\* IndexError for an empty list
Choose(t) ==
    /\ frames[t].pc = "l56"
    /\ IF replacements = <<>>
       THEN /\ frames' = [frames EXCEPT ![t].pc = "raised"]
            /\ Release(t)
       ELSE /\ \E k \in DOMAIN replacements :
                frames' = [frames EXCEPT ![t].pc = "store",
                                         ![t].replacement = replacements[k]]
            /\ UNCHANGED mutex
    /\ UNCHANGED <<cache, replacements, _no_replace, seeded, call, result,
                   hits, picked>>

\* line 56, the targets: replacement = self.cache[word] = <the choice>;
\* the store replaces whatever the cache holds for the word by then.
StoreChoice(t) ==
    /\ frames[t].pc = "store"
    /\ cache' = (frames[t].word :> frames[t].replacement) @@ cache
    /\ frames' = [frames EXCEPT ![t].pc = "l57"]
    /\ UNCHANGED <<replacements, _no_replace, seeded, call, result, hits,
                   picked, mutex>>

\* line 57: return replacement
ReturnChoice(t) ==
    /\ frames[t].pc = "l57"
    /\ frames' = [frames EXCEPT ![t].pc = "done",
                                ![t].val = frames[t].replacement]
    /\ picked' = picked \cup {<<frames[t].word, frames[t].replacement>>}
    /\ Release(t)
    /\ UNCHANGED <<cache, replacements, _no_replace, seeded, call, result,
                   hits>>

NextRace ==
    \E t \in Callers :
        \/ \E word \in RaceWords : Enter(t, word)
        \/ CheckExempt(t)
        \/ CheckCache(t)
        \/ Choose(t)
        \/ StoreChoice(t)
        \/ ReturnChoice(t)

SpecRace == InitRace /\ [][NextRace]_vars

----------------------------------------------------------------------------
(* Vocabulary of the properties.                                           *)

\* word has one of the three casings replace_single accepts
Recognized(word) == IsLower(word) \/ IsUpper(word) \/ IsTitle(word)

\* s is made of letters only, and of at least one
IsAlpha(s) == s # <<>> /\ \A i \in DOMAIN s : IsCasedCh(s[i])

\* word is a word of letters in lowercase, uppercase or title case
IsWord(word) == IsAlpha(word) /\ Recognized(word)

\* r in the casing of word
CaseAs(word, r) ==
    IF IsLower(word) THEN r ELSE IF IsUpper(word) THEN Upper(r) ELSE Title(r)

\* The last call was op, it returned, and its argument was one word.
ReplacedWord(op) ==
    /\ call.op = op
    /\ result.err = "none"
    /\ IF op = "replace_single" THEN Recognized(call.arg) ELSE IsWord(call.arg)

\* the decimal digits
Digits == {"0", "1", "2", "3", "4", "5", "6", "7", "8", "9"}

IsDigitCh(c) == c \in Digits

\* the letters of s, in order
Letters(s) == SelectSeq(s, IsCasedCh)

\* the characters of s that are neither letters nor digits (punctuation,
\* whitespace, underscores), in order
IsSeparatorCh(c) == ~IsCasedCh(c) /\ ~IsDigitCh(c)

Separators(s) == SelectSeq(s, IsSeparatorCh)

\* t occurs in s
Contains(s, t) ==
    \E i \in 1..(Len(s) + 1) :
        i + Len(t) - 1 <= Len(s) /\ SubSeq(s, i, i + Len(t) - 1) = t

\* the length of the longest run of letters of s that starts at pos
RECURSIVE LetterRun(_, _)
LetterRun(s, pos) ==
    IF pos <= Len(s) /\ IsCasedCh(s[pos]) THEN 1 + LetterRun(s, pos + 1) ELSE 0

\* the length of the longest run of digits of s that starts at pos
RECURSIVE DigitRun(_, _)
DigitRun(s, pos) ==
    IF pos <= Len(s) /\ IsDigitCh(s[pos]) THEN 1 + DigitRun(s, pos + 1) ELSE 0

\* the length of the longest run of underscores of s that starts at pos
RECURSIVE UnderscoreRun(_, _)
UnderscoreRun(s, pos) ==
    IF pos <= Len(s) /\ s[pos] = "_" THEN 1 + UnderscoreRun(s, pos + 1) ELSE 0

\* The words of a text, from pos on: every maximal run of letters, split by
\* casing on its own.
RECURSIVE WordsOfText(_, _)
WordsOfText(text, pos) ==
    IF pos > Len(text) THEN <<>>
    ELSE LET n == LetterRun(text, pos)
         IN  IF n = 0 THEN WordsOfText(text, pos + 1)
             ELSE split_replace_by_case(SubSeq(text, pos, pos + n - 1))
                      \o WordsOfText(text, pos + n)

\* the maximal runs of digits of a text, from pos on
RECURSIVE DigitRuns(_, _)
DigitRuns(text, pos) ==
    IF pos > Len(text) THEN {}
    ELSE LET n == DigitRun(text, pos)
         IN  IF n = 0 THEN DigitRuns(text, pos + 1)
             ELSE {SubSeq(text, pos, pos + n - 1)} \cup DigitRuns(text, pos + n)

\* the lengths of the maximal runs of underscores of a text, from pos on
RECURSIVE UnderscoreRuns(_, _)
UnderscoreRuns(text, pos) ==
    IF pos > Len(text) THEN <<>>
    ELSE LET n == UnderscoreRun(text, pos)
         IN  IF n = 0 THEN UnderscoreRuns(text, pos + 1)
             ELSE <<n>> \o UnderscoreRuns(text, pos + n)

\* What an instance with this cache gives for word: the word itself when it
\* is exempt, its cache entry in the casing of the word otherwise.
Replaced(word) ==
    IF Lower(word) \in _no_replace THEN word
    ELSE CaseAs(word, cache[Lower(word)])

\* the words from the i-th on, each replaced, joined
RECURSIVE JoinOf(_, _)
JoinOf(words, i) ==
    IF i > Len(words) THEN <<>> ELSE Replaced(words[i]) \o JoinOf(words, i + 1)

\* The last call was replace_combined and it returned.
Combined == call.op = "replace_combined" /\ result.err = "none"

\* no replacement in the cache holds anything but letters
PlainCache == \A w \in DOMAIN cache : IsAlpha(cache[w])

----------------------------------------------------------------------------
(* C1: on one instance, whatever calls of replace_single and               *)
(* replace_combined came before, every replacement _replace has returned   *)
(* for a word that is not exempt is one and the same for that word, it is  *)
(* the one the cache holds, and what either entry point returns for the    *)
(* word in lowercase, uppercase or title case is that cached replacement   *)
(* in the casing of the word.                                              *)
C1_OneReplacementPerWord ==
    /\ \A p, q \in picked : p[1] = q[1] => p[2] = q[2]
    /\ \A p \in picked : p[1] \in DOMAIN cache /\ cache[p[1]] = p[2]
    /\ \A op \in {"replace_single", "replace_combined"} :
        (ReplacedWord(op) /\ Lower(call.arg) \notin _no_replace)
            => /\ Lower(call.arg) \in DOMAIN cache
               /\ <<Lower(call.arg), cache[Lower(call.arg)]>> \in picked
               /\ result.val = CaseAs(call.arg, cache[Lower(call.arg)])

\* The word di, first chosen one of two candidates, is asked for again in
\* uppercase through replace_combined and found in the cache.
C1_Witness ==
    /\ Len(replacements) = 2
    /\ call = [op |-> "replace_combined", arg |-> <<"D", "I">>]
    /\ hits = 1
    /\ <<"d", "i">> \in DOMAIN cache
    /\ cache[<<"d", "i">>] = x_ray
    /\ result = [err |-> "none", val |-> Upper(x_ray)]

----------------------------------------------------------------------------
(* C2: a word whose lowercase form is exempt comes back unchanged from     *)
(* replace_single and from replace_combined in each casing (id, Id, ID),   *)
(* the cache never holds an entry for an exempt word, and an instance      *)
(* without the exemption replaces the same word by its cache entry.        *)
C2_ExemptUnchanged ==
    /\ \A w \in DOMAIN cache : w \notin _no_replace
    /\ \A op \in {"replace_single", "replace_combined"} :
        /\ (/\ call.op = op
            /\ IF op = "replace_single" THEN Recognized(call.arg)
                                        ELSE IsWord(call.arg)
            /\ Lower(call.arg) \in _no_replace)
            => result = [err |-> "none", val |-> call.arg]
        /\ (ReplacedWord(op) /\ Lower(call.arg) = id /\ id \notin _no_replace)
            => /\ id \in DOMAIN cache
               /\ result.val = CaseAs(call.arg, cache[id])
               /\ result.val # call.arg

\* Id is given to replace_combined on an instance that exempts id, and comes
\* back as Id.
C2_Witness ==
    /\ id \in _no_replace
    /\ call = [op |-> "replace_combined", arg |-> <<"I", "d">>]
    /\ result = [err |-> "none", val |-> <<"I", "d">>]
    /\ id \notin DOMAIN cache

----------------------------------------------------------------------------
(* C3: replace_combined keeps every character of its input that is not     *)
(* part of a word: the punctuation, whitespace and underscores of the      *)
(* input are those of the output, in the same order (the replacements      *)
(* being made of letters).                                                 *)
C3_SeparatorsPreserved ==
    (Combined /\ PlainCache)
        => Separators(result.val) = Separators(call.arg)

----------------------------------------------------------------------------
(* C4: replace_combined replaces every word of its input, a lowercase word *)
(* that follows a character other than a letter or an underscore included: *)
(* with candidates to choose from, every word has a replacement, and the   *)
(* letters of the output are the replacements of the words of the input,   *)
(* in order.                                                               *)
C4_EveryWordReplaced ==
    (Combined /\ PlainCache /\ replacements # <<>>)
        => LET words == WordsOfText(call.arg, 1)
           IN  /\ \A i \in DOMAIN words :
                    Lower(words[i]) \in DOMAIN cache \cup _no_replace
               /\ Letters(result.val) = JoinOf(words, 1)

----------------------------------------------------------------------------
(* C5: replace_combined replaces a run of digits like a lowercase word:    *)
(* after the call a run that is cached, or that there are candidates for,  *)
(* has a cache entry, and the output holds that entry as it is.            *)
C5_DigitsReplaced ==
    Combined
        => \A g \in DigitRuns(call.arg, 1) :
                (g \notin _no_replace
                    /\ (g \in DOMAIN cache \/ replacements # <<>>))
                    => g \in DOMAIN cache /\ Contains(result.val, cache[g])

----------------------------------------------------------------------------
(* C6: with an empty candidate list, a call of replace_single on a word    *)
(* that is neither exempt nor cached, and a call of replace_combined on a  *)
(* text with such a word, raise IndexError and return no value.            *)
C6_EmptyPoolFails ==
    [][ /\ (/\ replacements = <<>>
            /\ call'.op = "replace_single"
            /\ Recognized(call'.arg)
            /\ Lower(call'.arg) \notin _no_replace \cup DOMAIN cache)
            => result' = [err |-> "IndexError", val |-> <<>>]
        /\ (/\ replacements = <<>>
            /\ call'.op = "replace_combined"
            /\ \E i \in DOMAIN CasedWords(call'.arg, 1) :
                    Lower(CasedWords(call'.arg, 1)[i])
                        \notin _no_replace \cup DOMAIN cache)
            => result' = [err |-> "IndexError", val |-> <<>>]
      ]_vars

\* The fixture empty is called with a word (test_missing_word_nopicks).
C6_Witness ==
    /\ replacements = <<>>
    /\ cache = <<>>
    /\ call = [op |-> "replace_combined", arg |-> <<"d", "i">>]
    /\ result = [err |-> "IndexError", val |-> <<>>]

----------------------------------------------------------------------------
----------------------------------------------------------------------------
(* C8: replace_single keeps the casing of its word.  As claimed: with the  *)
(* word cached as r, the lowercase form returns r, the uppercase form r    *)
(* uppercased, and the title-case form r with its first character          *)
(* capitalized and all the others lowercase, for every candidate r.        *)

\* str.capitalize()
Capitalize(r) ==
    [i \in DOMAIN r |-> IF i = 1 THEN UpperCh(r[i]) ELSE LowerCh(r[i])]

\* The last call was replace_single on a cached word, and it returned.
SingleCached ==
    /\ call.op = "replace_single"
    /\ result.err = "none"
    /\ Lower(call.arg) \in DOMAIN cache
    /\ Lower(call.arg) \notin _no_replace

C8_CasingOfAnyCandidate ==
    SingleCached
        => LET r == cache[Lower(call.arg)]
           IN  /\ IsLower(call.arg) => result.val = r
               /\ IsUpper(call.arg) => result.val = Upper(r)
               /\ (~IsLower(call.arg) /\ ~IsUpper(call.arg))
                    => result.val = Capitalize(r)

(* C8, amended: the same, the title-case form for the candidates r made of *)
(* letters only.                                                           *)
C8_CasingOfLetterCandidate ==
    SingleCached
        => LET r == cache[Lower(call.arg)]
           IN  /\ IsLower(call.arg) => result.val = r
               /\ IsUpper(call.arg) => result.val = Upper(r)
               /\ (~IsLower(call.arg) /\ ~IsUpper(call.arg) /\ IsAlpha(r))
                    => result.val = Capitalize(r)

\* Di is given to replace_single with di cached as egg, and Egg comes back.
C8_Witness ==
    /\ call = [op |-> "replace_single", arg |-> <<"D", "i">>]
    /\ <<"d", "i">> \in DOMAIN cache
    /\ cache[<<"d", "i">>] = egg
    /\ result = [err |-> "none", val |-> <<"E", "g", "g">>]

----------------------------------------------------------------------------
(* C9: the Case Splitter ends an uppercase run one letter early when a     *)
(* lowercase letter follows: wherever the text has a maximal run of two or *)
(* more uppercase letters followed by lowercase letters, the run without   *)
(* its last letter is one word and that last letter with the lowercase     *)
(* letters after it is the next; simpleHTTPRequestMethod splits into       *)
(* simple, HTTP, Request, Method, and replace_combined returns the pieces' *)
(* replacements joined.                                                    *)
C9_AcronymSplit ==
    /\ split_replace_by_case(
           <<"s", "i", "m", "p", "l", "e", "H", "T", "T", "P", "R", "e", "q",
             "u", "e", "s", "t", "M", "e", "t", "h", "o", "d">>)
         = << <<"s", "i", "m", "p", "l", "e">>, <<"H", "T", "T", "P">>,
              <<"R", "e", "q", "u", "e", "s", "t">>,
              <<"M", "e", "t", "h", "o", "d">> >>
    /\ LET text == call.arg
           words == CasedWords(text, 1)
       IN  /\ \A p \in DOMAIN text :
                LET n == UpperRun(text, p)
                    l == LowerRun(text, p + n)
                IN  (/\ p = 1 \/ ~IsUpperCh(text[p - 1])
                     /\ n >= 2
                     /\ l >= 1)
                    => \E k \in DOMAIN words :
                        /\ words[k] = SubSeq(text, p, p + n - 2)
                        /\ k + 1 \in DOMAIN words
                        /\ words[k + 1] = SubSeq(text, p + n - 1, p + n + l - 1)
           /\ (Combined /\ IsAlpha(text)) => result.val = JoinOf(words, 1)

\* dIDIdi, the shape of simpleHTTPRequest, is given to the fixture spam and
\* comes back as spam, SPAM, Spam joined.
C9_Witness ==
    /\ replacements = <<spam>>
    /\ call = [op |-> "replace_combined",
               arg |-> <<"d", "I", "D", "I", "d", "i">>]
    /\ result = [err |-> "none", val |-> spam \o Upper(spam) \o Title(spam)]

----------------------------------------------------------------------------
(* C10: replace_combined keeps every run of underscores: the output has    *)
(* the runs of underscores of the input, as many, as long and in the same  *)
(* order (no replacement holding an underscore).                           *)
C10_UnderscoreRunsPreserved ==
    (Combined /\ \A w \in DOMAIN cache : ~Contains(cache[w], <<"_">>))
        => UnderscoreRuns(result.val, 1) = UnderscoreRuns(call.arg, 1)

----------------------------------------------------------------------------
(* C11: replace_combined never raises ValueError: every piece the Case     *)
(* Splitter yields for a text is lowercase, uppercase or title case, so    *)
(* replace_single accepts each of them; with candidates to choose from the *)
(* call returns.                                                           *)
C11_CombinedNeverUnrecognized ==
    /\ \A i \in DOMAIN CasedWords(call.arg, 1) :
            Recognized(CasedWords(call.arg, 1)[i])
    /\ call.op = "replace_combined"
        => /\ result.err # "ValueError"
           /\ replacements # <<>> => result.err = "none"

\* iDid, split into i and Did, is given to the fixture chicken and comes
\* back as chicken, Chicken joined.
C11_Witness ==
    /\ replacements = <<chicken>>
    /\ call = [op |-> "replace_combined", arg |-> <<"i", "D", "i", "d">>]
    /\ result = [err |-> "none", val |-> chicken \o Title(chicken)]

----------------------------------------------------------------------------
(* C12: replace_single raises ValueError for exactly the words that are    *)
(* neither lowercase, uppercase nor title case, and for a word of one of   *)
(* the three casings it returns the replacement of the word (or fails for  *)
(* want of candidates, never with ValueError).  For a word of letters the  *)
(* three casings are: every letter lowercase, every letter uppercase, the  *)
(* first letter uppercase and all the others lowercase.                    *)

\* word, made of letters, has one of the three casings
LetterCasing(word) ==
    \/ \A i \in DOMAIN word : IsLowerCh(word[i])
    \/ \A i \in DOMAIN word : IsUpperCh(word[i])
    \/ /\ IsUpperCh(word[1])
       /\ \A i \in DOMAIN word : i > 1 => IsLowerCh(word[i])

C12_ValueErrorIffUnrecognized ==
    /\ IsAlpha(call.arg) => (Recognized(call.arg) <=> LetterCasing(call.arg))
    /\ call.op = "replace_single"
        => /\ result.err = "ValueError" <=> ~Recognized(call.arg)
           /\ result.err = "none" => result.val = Replaced(call.arg)
           /\ (Recognized(call.arg) /\ replacements # <<>>)
                => result.err = "none"

\* IDi, the casing of FOo, is given to replace_single, which raises
\* ValueError.
C12_Witness ==
    /\ call = [op |-> "replace_single", arg |-> <<"I", "D", "i">>]
    /\ result = [err |-> "ValueError", val |-> <<>>]

----------------------------------------------------------------------------
(* C13: the candidate list of a Nominator is the sequence of the           *)
(* whitespace-separated words of its source, lowercased, none empty, the   *)
(* lines in order and the words of a line left to right; built from the    *)
(* file 'one two\nthree\tfour' or from the lines 'one two',                *)
(* 'three\t  four' the list is one, two, three, four.                      *)

\* where the words of a line start: at a character that is not whitespace
\* and that no such character precedes
WordStarts(line) ==
    {i \in DOMAIN line :
        ~IsSpaceCh(line[i]) /\ (i = 1 \/ IsSpaceCh(line[i - 1]))}

\* the word of line that starts at i: up to the last character before the
\* next whitespace
WordAt(line, i) ==
    SubSeq(line, i,
           CHOOSE j \in i..Len(line) :
               /\ \A k \in i..j : ~IsSpaceCh(line[k])
               /\ j = Len(line) \/ IsSpaceCh(line[j + 1]))

\* how many words the lines before the l-th have
RECURSIVE WordsBefore(_, _)
WordsBefore(source, l) ==
    IF l = 1 THEN 0
    ELSE WordsBefore(source, l - 1) + Cardinality(WordStarts(source[l - 1]))

one == <<"o", "n", "e">>
two == <<"t", "w", "o">>
three == <<"t", "h", "r", "e", "e">>
four == <<"f", "o", "u", "r">>

C13_WordsOfSource ==
    /\ read_words(FileLines(one \o <<" ">> \o two \o <<"\n">> \o three
                                \o <<"\t">> \o four))
         = <<one, two, three, four>>
    /\ read_words(<<one \o <<" ">> \o two,
                    three \o <<"\t", " ", " ">> \o four>>)
         = <<one, two, three, four>>
    /\ call.op = "__init__"
        => LET source == call.arg
           IN  /\ Len(replacements) = WordsBefore(source, Len(source) + 1)
               /\ \A k \in DOMAIN replacements : replacements[k] # <<>>
               /\ \A l \in DOMAIN source :
                    \A i \in WordStarts(source[l]) :
                        replacements[WordsBefore(source, l)
                            + Cardinality({j \in WordStarts(source[l]) :
                                              j <= i})]
                          = Lower(WordAt(source[l], i))

\* A Nominator is built from the lines 'a\tB' and 'a', and its candidate
\* list is a, b, a.
C13_Witness ==
    /\ call = [op |-> "__init__",
               arg |-> << <<"a", "\t", "B">>, <<"a">> >>]
    /\ replacements = << <<"a">>, <<"b">>, <<"a">> >>

----------------------------------------------------------------------------
(* C14: concurrent callers of _replace.  With the callers synchronized, so *)
(* that check, choice and store of one caller are atomic for the others,   *)
(* no word is ever given two different replacements: the replacements      *)
(* _replace has returned are one per word, and two callers that have       *)
(* returned for the same word hold the same value.  Without                *)
(* synchronization the state where two callers both missed the cache for   *)
(* the same word and hold different replacements is reachable (the         *)
(* witness).                                                               *)

\* Callers s and t have both returned for the same word, which is not
\* exempt, and hold different replacements.
Disagree(s, t) ==
    /\ s # t
    /\ frames[s].pc = "done"
    /\ frames[t].pc = "done"
    /\ frames[s].word = frames[t].word
    /\ frames[s].word \notin _no_replace
    /\ frames[s].val # frames[t].val

C14_AtomicNoRace ==
    (call.op = "race" /\ mutex # NoMutex)
        => /\ \A p, q \in picked : p[1] = q[1] => p[2] = q[2]
           /\ \A s, t \in DOMAIN frames : ~Disagree(s, t)

\* Without synchronization, on the instance with the candidates egg and
\* x-ray, two callers have both missed the cache for d, and one has
\* returned egg, the other x-ray.
C14_Witness ==
    /\ call.op = "race"
    /\ mutex = NoMutex
    /\ replacements = <<egg, x_ray>>
    /\ \E s, t \in DOMAIN frames :
        /\ Disagree(s, t)
        /\ frames[s].missed /\ frames[t].missed
        /\ frames[s].word = <<"d">>
        /\ frames[s].val = egg
        /\ frames[t].val = x_ray

----------------------------------------------------------------------------
(* C15: the cache only grows.  No call of replace_single or                *)
(* replace_combined removes an entry or changes its value.  The one call   *)
(* of _replace that replace_single makes adds exactly one entry, for the   *)
(* lowercase word and holding a candidate, when the word is neither exempt *)
(* nor cached and there are candidates, and none otherwise;                *)
(* replace_combined adds entries only for the words it hands on, at most   *)
(* one for each.                                                           *)

\* the candidate words
Candidates == {replacements[k] : k \in DOMAIN replacements}

\* the lowercase forms of the words replace_combined(text) hands on
LowerWords(text) ==
    {Lower(CasedWords(text, 1)[i]) : i \in DOMAIN CasedWords(text, 1)}

C15_CacheOnlyGrows ==
    [][ /\ call'.op \in {"replace_single", "replace_combined"}
            => \A w \in DOMAIN cache :
                    w \in DOMAIN cache' /\ cache'[w] = cache[w]
        /\ call'.op = "replace_single"
            => LET w == Lower(call'.arg)
               IN  IF /\ Recognized(call'.arg)
                      /\ w \notin _no_replace \cup DOMAIN cache
                      /\ replacements # <<>>
                   THEN /\ DOMAIN cache' = DOMAIN cache \cup {w}
                        /\ cache'[w] \in Candidates
                   ELSE cache' = cache
        /\ call'.op = "replace_combined"
            => /\ DOMAIN cache' \ DOMAIN cache
                    \subseteq LowerWords(call'.arg) \ _no_replace
               /\ \A w \in DOMAIN cache' \ DOMAIN cache :
                    cache'[w] \in Candidates
               /\ replacements # <<>>
                    => DOMAIN cache' = DOMAIN cache
                           \cup (LowerWords(call'.arg) \ _no_replace)
      ]_vars

\* A call of replace_single on a word that was not cached has added a
\* second entry to a cache that only calls have filled.
C15_Witness ==
    /\ ~seeded
    /\ call.op = "replace_single"
    /\ result.err = "none"
    /\ hits = 0
    /\ Lower(call.arg) \in DOMAIN cache
    /\ Cardinality(DOMAIN cache) = 2

----------------------------------------------------------------------------
(* C16: for a text made of letters only (the empty one included), the      *)
(* pieces the Case Splitter yields, none of them empty, joined in the      *)
(* order they are yielded, are the text: they cover it, and no letter is   *)
(* dropped or yielded twice.                                               *)

\* the pieces from the i-th on, joined
RECURSIVE Joined(_, _)
Joined(pieces, i) ==
    IF i > Len(pieces) THEN <<>> ELSE pieces[i] \o Joined(pieces, i + 1)

C16_PiecesCoverLetters ==
    (\A i \in DOMAIN call.arg : IsCasedCh(call.arg[i]))
        => LET pieces == split_replace_by_case(call.arg)
           IN  /\ \A k \in DOMAIN pieces : pieces[k] # <<>>
               /\ Joined(pieces, 1) = call.arg

\* IDidID is split into I, Did, ID, and the fixture spam gives SPAM, Spam,
\* SPAM joined for it.
C16_Witness ==
    /\ replacements = <<spam>>
    /\ call = [op |-> "replace_combined",
               arg |-> <<"I", "D", "i", "d", "I", "D">>]
    /\ split_replace_by_case(call.arg)
         = << <<"I">>, <<"D", "i", "d">>, <<"I", "D">> >>
    /\ result = [err |-> "none",
                 val |-> Upper(spam) \o Title(spam) \o Upper(spam)]

----------------------------------------------------------------------------
(* C17: replace_single takes a word made of digits only for a lowercase    *)
(* word: when the word is cached, or there are candidates to choose from,  *)
(* the call does not raise ValueError but returns the cache entry of the   *)
(* word as it is.                                                          *)

\* s is made of digits only, and of at least one
IsDigits(s) == s # <<>> /\ \A i \in DOMAIN s : IsDigitCh(s[i])

C17_DigitsAsLowercase ==
    (/\ call.op = "replace_single"
     /\ IsDigits(call.arg)
     /\ call.arg \notin _no_replace
     /\ call.arg \in DOMAIN cache \/ replacements # <<>>)
        => /\ result.err = "none"
           /\ call.arg \in DOMAIN cache
           /\ result.val = cache[call.arg]

----------------------------------------------------------------------------
(* C18: no call of replace_single or replace_combined, whether it returns  *)
(* or raises, changes the candidate list or the exemption set; of the      *)
(* three attributes of the instance a call changes the cache at most.      *)
C18_OnlyCacheChanges ==
    [][ call'.op \in {"replace_single", "replace_combined"}
            => /\ replacements' = replacements
               /\ _no_replace' = _no_replace
      ]_vars

\* A call of replace_combined has returned and filled the cache with two
\* entries; the instance still has the candidates egg and x-ray and exempts
\* id.
C18_Witness ==
    /\ replacements = <<egg, x_ray>>
    /\ _no_replace = {id}
    /\ ~seeded
    /\ call.op = "replace_combined"
    /\ result.err = "none"
    /\ Cardinality(DOMAIN cache) = 2

----------------------------------------------------------------------------
(* C19: on an instance whose cache no external code has written to, every  *)
(* key of the cache is a word without uppercase letters that is not        *)
(* exempt, and every value is one of the candidates.                       *)
C19_CacheWellFormed ==
    ~seeded
        => \A w \in DOMAIN cache :
            /\ \A i \in DOMAIN w : ~IsUpperCh(w[i])
            /\ w \notin _no_replace
            /\ cache[w] \in Candidates

\* D1, an uppercase word, has been given to replace_single of the fixture
\* spam, and the cache holds spam for d1.
C19_Witness ==
    /\ ~seeded
    /\ call = [op |-> "replace_single", arg |-> <<"D", "1">>]
    /\ DOMAIN cache = {<<"d", "1">>}
    /\ cache[<<"d", "1">>] = spam

----------------------------------------------------------------------------
(* C20: a call of replace_single or replace_combined that raises           *)
(* ValueError or IndexError leaves the cache as it was before the call: no *)
(* entry is stored for the word that failed, nor for the words of the same *)
(* text that came before it.                                               *)
C20_FailedCallKeepsCache ==
    [][ (/\ call'.op \in {"replace_single", "replace_combined"}
         /\ result'.err \in {"ValueError", "IndexError"})
            => cache' = cache
      ]_vars

\* On an instance without candidates whose cache was seeded with d -> egg,
\* replace_combined is given dI: d is found in the cache, i is not, and the
\* call raises IndexError with the cache as it was seeded.
C20_Witness ==
    /\ replacements = <<>>
    /\ seeded
    /\ call = [op |-> "replace_combined", arg |-> <<"d", "I">>]
    /\ hits = 1
    /\ result = [err |-> "IndexError", val |-> <<>>]
    /\ \E entries \in SeedCaches : cache = entries

====
